---- MODULE Spec2Model ----
(***************************************************************************)
(* The tux3 sync flusher (fs/tux3/commit_flusher.c, TUX3_FLUSHER_SYNC):    *)
(* threads race through wait_for_transition, wait_for_commit,              *)
(* sync_current_delta and try_delta_transition over the shared delta       *)
(* counters and the backend_state bits.  Each action is one atomic step    *)
(* (one access to shared state) of one thread.  The tux3_writeback passes  *)
(* of the async flusher (TUX3_FLUSHER_ASYNC) are at the end.               *)
(*                                                                         *)
(* delta_get, delta_put, delta_transition, flush_delta and delta_after_eq  *)
(* are defined outside commit_flusher.c; they are modelled after the       *)
(* design document (spec.md sections 3, 4.2, 4.4 and 4.5).                 *)
(***************************************************************************)
EXTENDS Integers, FiniteSets, TLC

\* ---------------------------------------------------------------- bounds
NThreads == 2
\* references writers other than the modelled threads may hold at one time
MaxRefs == 1
\* operations that can start a transition begin only while fewer than
\* MaxDelta transitions have been done
MaxDelta == 2
\* flushes that may fail in one behaviour
MaxFaults == 1
\* threads that may get a fatal signal in one behaviour
MaxKills == 1
\* width of the delta counters (an unsigned of DeltaBits bits)
DeltaBits == 4
\* references the writers hold on the open epoch in the scenario of spec.md
\* section 8
NWriters == 2

Threads == 1..NThreads
DeltaMod == 2 ^ DeltaBits
HalfRange == 2 ^ (DeltaBits - 1)
Deltas == 0..(DeltaMod - 1)
\* the counters start just below the wrap, so the epochs issued cross it
InitDelta == DeltaMod - 1

VARIABLES
    staging_delta,    \* sb->staging_delta
    committed_delta,  \* sb->committed_delta
    current_delta,    \* the open epoch: the one delta_get() joins
    refcount,         \* writers' references per epoch
    backend_state,    \* sb->backend_state, the set of bits that are set
    delta_lock,       \* sb->delta_lock: 0, or the thread that holds it
    pc,               \* per thread: where it is
    op,               \* per thread: the entry point it called
    delta,            \* per thread: the local `delta` of the entry point
    wq,               \* per thread: its entry on sb->delta_event_wq
    sig,              \* per thread: a fatal signal is pending
    ret,              \* per thread: the value the entry point returned
    prev,             \* per thread in delta_transition: the epoch it sealed
    fdelta,           \* per thread in flush_delta: the epoch it flushes
    ntrans,           \* history: transitions begun
    credit,           \* history: settings of COMMIT_PENDING minus flushes begun
    failed,           \* history: epochs whose flush returned an error
    issued            \* history: epochs that have been the open epoch

shared == <<staging_delta, committed_delta, current_delta, refcount,
            backend_state, delta_lock>>
locals == <<pc, op, delta, wq, sig, ret, prev, fdelta>>
history == <<ntrans, credit, failed, issued>>
vars == <<shared, locals, history>>

\* ------------------------------------------------------------- helpers
Inc(d) == (d + 1) % DeltaMod

\* (int)(a - b) on unsigned counters of DeltaBits bits
SignedDiff(a, b) ==
    LET d == (a - b) % DeltaMod
    IN  IF d >= HalfRange THEN d - DeltaMod ELSE d

delta_after_eq(a, b) == SignedDiff(a, b) >= 0

\* test_bit
test_bit(bit, state) == bit \in state

\* test_and_set_bit / test_and_clear_bit: the value the bit had
test_and_set_bit(bit, state) == bit \in state
test_and_clear_bit(bit, state) == bit \in state

\* wake_up_all(&sb->delta_event_wq): every queued sleeper becomes runnable
wake_up_all(q) == [t \in Threads |-> IF q[t] = "armed" THEN "woken" ELSE q[t]]

schedule_flush_delta(q) == wake_up_all(q)

\* prepare_to_wait_event(): with a fatal signal pending the task is not
\* queued and the wait is marked interrupted, else it is queued
prepare_to_wait_event(t) == IF sig[t] THEN "intr" ELSE "armed"

\* ------------------------------------------------- decisions of the code
COMMIT_RUNNING == "TUX3_COMMIT_RUNNING_BIT"
COMMIT_PENDING == "TUX3_COMMIT_PENDING_BIT"

\* a plain set_bit() in place of the test_and_set_bit() of try_delta_transition()
TryTransitionElectedNoTest(state) == TRUE

\* try_delta_transition(): if (!test_and_set_bit(TUX3_COMMIT_RUNNING_BIT, ...))
TryTransitionElected(state) == ~test_and_set_bit(COMMIT_RUNNING, state)

\* a plain set_bit() in place of the test_and_set_bit()
TransitionElectedNoTest(state) == TRUE

\* the test of test_and_set_bit() without its negation
TransitionElectedInverted(state) == test_and_set_bit(COMMIT_RUNNING, state)

\* try_delta_transition_until_delta(): if (!test_and_set_bit(...)) {
TransitionElected(state) == ~test_and_set_bit(COMMIT_RUNNING, state)

\* the plain numeric comparison in place of delta_after_eq
TransitionDonePlain(staging, d) == staging >= d

\* try_delta_transition_until_delta(): delta_after_eq(sb->staging_delta, delta)
TransitionDone(staging, d) == delta_after_eq(staging, d)

\* the recheck left out: the winner always runs the transition
TransitionDoneRecheckSkipped(staging, d) == FALSE

\* the recheck with its test inverted
TransitionDoneRecheckInverted(staging, d) == ~delta_after_eq(staging, d)

\* the recheck after the bit was grabbed
TransitionDoneRecheck(staging, d) == delta_after_eq(staging, d)

\* the test of test_bit() inverted: the thread leaves when the bit is set
PendingSeenInverted(state) == ~test_bit(COMMIT_PENDING, state)

\* flush_pending_delta(): if (!test_bit(TUX3_COMMIT_PENDING_BIT, ...)) goto out
PendingSeen(state) == test_bit(COMMIT_PENDING, state)

\* a plain clear_bit() after the test_bit(), as tux3_writeback() does
FlushElectedNoTest(state) == TRUE

\* the test of test_and_clear_bit() inverted
FlushElectedInverted(state) == ~test_and_clear_bit(COMMIT_PENDING, state)

\* flush_pending_delta(): if (test_and_clear_bit(TUX3_COMMIT_PENDING_BIT, ...))
FlushElected(state) == test_and_clear_bit(COMMIT_PENDING, state)

\* a strict comparison (delta_after) in place of delta_after_eq
CommitDoneStrict(committed, d) == delta_after_eq(committed, d) /\ committed # d

\* try_flush_pending_until_delta(): delta_after_eq(sb->committed_delta, delta)
CommitDone(committed, d) == delta_after_eq(committed, d)

\* a lock that lets every caller through
DeltaLockFreeAlways(lock) == TRUE

\* down_write(&sb->delta_lock) goes through only while nobody holds the lock
DeltaLockFree(lock) == lock = 0

\* the `if (err) return err;` left out: go on to wait_for_commit()
SyncTransitionFailedIgnored(t, err) ==
    /\ pc' = [pc EXCEPT ![t] = "wc_cond"]
    /\ UNCHANGED <<ret, delta_lock>>

\* sync_current_delta(): err = wait_for_transition(...); if (err) return err;
\* the value it returns and the lock it leaves behind
SyncTransitionFailed(t, err) ==
    /\ ret' = [ret EXCEPT ![t] = err]
    /\ pc' = [pc EXCEPT ![t] = "ret"]
    /\ UNCHANGED delta_lock

\* the tail returning 0 whatever err is (the async flusher's `return 0`)
SyncCommitReturnedZero(t, err) ==
    /\ ret' = [ret EXCEPT ![t] = "0"]
    /\ pc' = [pc EXCEPT ![t] =
                IF err # "0" \/ delta_after_eq(committed_delta, delta[t])
                THEN "ret" ELSE "BUG"]
    /\ delta_lock' = 0

\* sync_current_delta(): the tail after wait_for_commit() returned err:
\* assert(err || delta_after_eq(sb->committed_delta, delta)); up_write; return err
SyncCommitReturned(t, err) ==
    /\ ret' = [ret EXCEPT ![t] = err]
    /\ pc' = [pc EXCEPT ![t] =
                IF err # "0" \/ delta_after_eq(committed_delta, delta[t])
                THEN "ret" ELSE "BUG"]
    /\ delta_lock' = 0

\* sync_current_delta(): wait_for_transition() returned 0:
\* assert(delta_after_eq(sb->staging_delta, delta)); then wait_for_commit()
SyncTransitionOk(t) ==
    /\ pc' = [pc EXCEPT ![t] =
                IF delta_after_eq(staging_delta, delta[t])
                THEN "wc_cond" ELSE "BUG"]
    /\ UNCHANGED <<ret, delta_lock>>

\* a direct caller of wait_for_transition() or wait_for_commit() gets err
WaitReturned(t, err) ==
    /\ ret' = [ret EXCEPT ![t] = err]
    /\ pc' = [pc EXCEPT ![t] = "ret"]
    /\ UNCHANGED delta_lock

\* tux3_writeback(): wait_for_transition() returned 0:
\* assert(delta_after_eq(sb->staging_delta, delta)); then the wait_event()
WritebackTransitionOk(t) ==
    /\ pc' = [pc EXCEPT ![t] =
                IF delta_after_eq(staging_delta, delta[t])
                THEN "wb_wait" ELSE "BUG"]
    /\ UNCHANGED <<ret, delta_lock>>

\* what follows the wait `w` ("wt" or "wc") of thread t returning err
AfterWait(t, w, err) ==
    IF op[t] = "sync"
    THEN IF w = "wt"
         THEN IF err # "0" THEN SyncTransitionFailed(t, err)
                           ELSE SyncTransitionOk(t)
         ELSE SyncCommitReturned(t, err)
    ELSE IF op[t] = "wb" /\ err = "0"
    THEN WritebackTransitionOk(t)
    ELSE WaitReturned(t, err)

\* wait_event_killable(wq, condition), after `condition` evaluated to c:
\* sets pc, wq, ret and delta_lock of the step
wait_event_killable(t, w, c) ==
    IF c
    THEN \* condition true: finish_wait(), the wait returns 0
         /\ wq' = [wq EXCEPT ![t] = "none"]
         /\ AfterWait(t, w, "0")
    ELSE IF wq[t] = "none"
    THEN \* the first, unqueued test failed: enter the loop
         /\ wq' = [wq EXCEPT ![t] = prepare_to_wait_event(t)]
         /\ pc' = [pc EXCEPT ![t] = IF w = "wt" THEN "wt_cond" ELSE "wc_cond"]
         /\ UNCHANGED <<ret, delta_lock>>
    ELSE IF wq[t] = "intr"
    THEN \* a fatal signal was pending at prepare_to_wait_event()
         /\ wq' = [wq EXCEPT ![t] = "none"]
         /\ AfterWait(t, w, "-ERESTARTSYS")
    ELSE \* schedule()
         /\ pc' = [pc EXCEPT ![t] = IF w = "wt" THEN "wt_sched" ELSE "wc_sched"]
         /\ UNCHANGED <<wq, ret, delta_lock>>

\* ------------------------------------------------ the delta reference
RECURSIVE SumRefs(_, _)
SumRefs(f, S) ==
    IF S = {} THEN 0
    ELSE LET e == CHOOSE x \in S : TRUE IN f[e] + SumRefs(f, S \ {e})

\* references held by threads between delta_get() and delta_put() in
\* sync_current_delta()
HeldBySync(e) == Cardinality({t \in Threads : pc[t] = "sync_put" /\ delta[t] = e})

\* references held by writers
HeldByWriters(e) == refcount[e] - HeldBySync(e)

\* an epoch is sealed once its transition is done: it is no longer the open
\* epoch and staging_delta has reached it
Sealed(e) == e # current_delta /\ delta_after_eq(staging_delta, e)

\* set_bit(TUX3_COMMIT_PENDING_BIT) and its count in the history
SetPending ==
    /\ backend_state' = backend_state \cup {COMMIT_PENDING}
    /\ credit' = IF COMMIT_PENDING \in backend_state THEN credit ELSE credit + 1

\* delta_get(): join the open epoch
delta_get == refcount' = [refcount EXCEPT ![current_delta] = @ + 1]

\* delta_put(): drop a reference to epoch e; the last reference to a sealed
\* epoch marks the commit pending and wakes the waiters
delta_put(e) ==
    /\ refcount' = [refcount EXCEPT ![e] = @ - 1]
    /\ IF refcount[e] = 1 /\ Sealed(e)
       THEN /\ SetPending
            /\ wq' = schedule_flush_delta(wq)
       ELSE UNCHANGED <<backend_state, credit, wq>>

\* a writer takes a reference to the open epoch
WriterGet ==
    /\ SumRefs([e \in Deltas |-> HeldByWriters(e)], Deltas) < MaxRefs
    /\ delta_get
    /\ UNCHANGED <<staging_delta, committed_delta, current_delta, backend_state,
                   delta_lock, locals, history>>

\* a writer drops its reference to epoch e
WriterPut(e) ==
    /\ HeldByWriters(e) > 0
    /\ delta_put(e)
    /\ UNCHANGED <<staging_delta, committed_delta, current_delta, delta_lock,
                   pc, op, delta, sig, ret, prev, fdelta, ntrans, failed, issued>>

\* ------------------------------------------------ delta_transition()
\* seal the open epoch and open the next one
DeltaTransitionSeal(t) ==
    /\ pc[t] = "dt_seal"
    /\ prev' = [prev EXCEPT ![t] = current_delta]
    /\ current_delta' = Inc(current_delta)
    /\ issued' = issued \cup {Inc(current_delta)}
    /\ ntrans' = ntrans + 1
    /\ pc' = [pc EXCEPT ![t] = "dt_stage"]
    /\ UNCHANGED <<staging_delta, committed_delta, refcount, backend_state,
                   delta_lock, op, delta, wq, sig, ret, fdelta, credit, failed>>

\* advance staging_delta to the sealed epoch, mark it pending if no writer is
\* left in it, clear TUX3_COMMIT_RUNNING_BIT and wake the waiters (one step:
\* the bit is held throughout, and no waiter can sleep past the wake that
\* ends the step)
DeltaTransitionStage(t) ==
    /\ pc[t] = "dt_stage"
    /\ staging_delta' = prev[t]
    /\ IF refcount[prev[t]] = 0
       THEN /\ backend_state' =
                   (backend_state \cup {COMMIT_PENDING}) \ {COMMIT_RUNNING}
            /\ credit' = IF COMMIT_PENDING \in backend_state
                         THEN credit ELSE credit + 1
       ELSE /\ backend_state' = backend_state \ {COMMIT_RUNNING}
            /\ UNCHANGED credit
    /\ wq' = wake_up_all(wq)
    /\ prev' = [prev EXCEPT ![t] = 0]
    /\ pc' = [pc EXCEPT ![t] = IF op[t] = "tdt" THEN "idle" ELSE "wt_last"]
    /\ op' = [op EXCEPT ![t] = IF op[t] = "tdt" THEN "none" ELSE @]
    /\ UNCHANGED <<committed_delta, current_delta, refcount, delta_lock,
                   delta, sig, ret, fdelta, ntrans, failed, issued>>

\* ------------------------------------------------ flush_delta()
\* the epoch to flush is the staged one
FlushDeltaBegin(t) ==
    /\ pc[t] = "fd_begin"
    /\ fdelta' = [fdelta EXCEPT ![t] = staging_delta]
    /\ pc' = [pc EXCEPT ![t] = "fd_commit"]
    /\ UNCHANGED <<shared, op, delta, wq, sig, ret, prev, history>>

\* the flush returns err; committed_delta advances to the flushed epoch and
\* the waiters are woken.  flush_pending_delta() returns err to
\* try_flush_pending_until_delta(), which drops it; tux3_writeback() does
\* not use it either.
FlushDeltaCommit(t, err) ==
    /\ pc[t] = "fd_commit"
    /\ committed_delta' = IF delta_after_eq(fdelta[t], committed_delta)
                          THEN fdelta[t] ELSE committed_delta
    /\ failed' = IF err # "0" THEN failed \cup {fdelta[t]} ELSE failed
    /\ wq' = wake_up_all(wq)
    /\ fdelta' = [fdelta EXCEPT ![t] = 0]
    /\ pc' = [pc EXCEPT ![t] = IF op[t] = "wb" THEN "wb_ret" ELSE "wc_last"]
    /\ UNCHANGED <<staging_delta, current_delta, refcount, backend_state,
                   delta_lock, op, delta, sig, ret, prev, ntrans, credit, issued>>

\* where a thread is
InTransition(t) == pc[t] \in {"dt_seal", "dt_stage"}
InFlush(t) == pc[t] \in {"fd_begin", "fd_commit"}
InWaitForTransition(t) ==
    pc[t] \in {"wt_cond", "wt_tas", "wt_recheck", "dt_seal", "dt_stage",
               "wt_last", "wt_sched"}
InWaitForCommit(t) ==
    pc[t] \in {"wc_cond", "fpd_test", "fpd_tac", "fd_begin", "fd_commit",
               "wc_last", "wc_sched"}
\* tux3_writeback() after its wait_for_transition()
InWritebackFlush(t) ==
    pc[t] \in {"wb_wait", "wb_sched", "wb_test", "wb_clear", "wb_ret"}

\* the entry points that may run a transition are called only while the
\* transitions done and the calls under way that may each add one stay
\* within MaxDelta
MayTransition ==
    ntrans + Cardinality({t \in Threads : op[t] \in {"tdt", "wt", "sync", "wb"}
                                           /\ pc[t] \notin {"ret", "exited", "dt_stage"}
                                           /\ ~InWaitForCommit(t)
                                           /\ ~InWritebackFlush(t)})
        < MaxDelta

\* ------------------------------------------------ try_delta_transition()
try_delta_transition(t) ==
    /\ pc[t] = "idle"
    /\ MayTransition
    /\ IF TryTransitionElected(backend_state)
       THEN /\ backend_state' = backend_state \cup {COMMIT_RUNNING}
            /\ pc' = [pc EXCEPT ![t] = "dt_seal"]
            /\ op' = [op EXCEPT ![t] = "tdt"]
       ELSE UNCHANGED <<backend_state, pc, op>>
    /\ UNCHANGED <<staging_delta, committed_delta, current_delta, refcount,
                   delta_lock, delta, wq, sig, ret, prev, fdelta, history>>

\* ------------------------------------------------ wait_for_transition()
\* a thread calls wait_for_transition(sb, d)
CallWaitForTransition(t, d) ==
    /\ pc[t] = "idle"
    /\ MayTransition
    /\ op' = [op EXCEPT ![t] = "wt"]
    /\ delta' = [delta EXCEPT ![t] = d]
    /\ pc' = [pc EXCEPT ![t] = "wt_cond"]
    /\ UNCHANGED <<shared, wq, sig, ret, prev, fdelta, history>>

\* try_delta_transition_until_delta(): the first test of staging_delta
TransitionFirstCheck(t) ==
    /\ pc[t] = "wt_cond"
    /\ IF TransitionDone(staging_delta, delta[t])
       THEN wait_event_killable(t, "wt", TRUE)
       ELSE /\ pc' = [pc EXCEPT ![t] = "wt_tas"]
            /\ UNCHANGED <<wq, ret, delta_lock>>
    /\ UNCHANGED <<staging_delta, committed_delta, current_delta, refcount,
                   backend_state, op, delta, sig, prev, fdelta, history>>

\* try_delta_transition_until_delta(): test_and_set_bit(TUX3_COMMIT_RUNNING_BIT)
TransitionTestAndSet(t) ==
    /\ pc[t] = "wt_tas"
    /\ IF TransitionElected(backend_state)
       THEN /\ backend_state' = backend_state \cup {COMMIT_RUNNING}
            /\ pc' = [pc EXCEPT ![t] = "wt_recheck"]
       ELSE /\ pc' = [pc EXCEPT ![t] = "wt_last"]
            /\ UNCHANGED backend_state
    /\ UNCHANGED <<staging_delta, committed_delta, current_delta, refcount,
                   delta_lock, op, delta, wq, sig, ret, prev, fdelta, history>>

\* try_delta_transition_until_delta(): the recheck with the bit held; if the
\* transition was done meanwhile, clear the bit and return 1
TransitionRecheck(t) ==
    /\ pc[t] = "wt_recheck"
    /\ IF TransitionDoneRecheck(staging_delta, delta[t])
       THEN /\ backend_state' = backend_state \ {COMMIT_RUNNING}
            /\ wait_event_killable(t, "wt", TRUE)
       ELSE /\ pc' = [pc EXCEPT ![t] = "dt_seal"]
            /\ UNCHANGED <<backend_state, wq, ret, delta_lock>>
    /\ UNCHANGED <<staging_delta, committed_delta, current_delta, refcount,
                   op, delta, sig, prev, fdelta, history>>

\* try_delta_transition_until_delta(): return delta_after_eq(staging_delta, delta)
TransitionLastCheck(t) ==
    /\ pc[t] = "wt_last"
    /\ wait_event_killable(t, "wt", TransitionDone(staging_delta, delta[t]))
    /\ UNCHANGED <<staging_delta, committed_delta, current_delta, refcount,
                   backend_state, op, delta, sig, prev, fdelta, history>>

\* schedule() in the wait loop returns once the task was woken (or a fatal
\* signal is pending); the loop then calls prepare_to_wait_event() again
Schedule(t) ==
    /\ pc[t] \in {"wt_sched", "wc_sched"}
    /\ wq[t] = "woken" \/ sig[t]
    /\ wq' = [wq EXCEPT ![t] = prepare_to_wait_event(t)]
    /\ pc' = [pc EXCEPT ![t] = IF pc[t] = "wt_sched" THEN "wt_cond" ELSE "wc_cond"]
    /\ UNCHANGED <<shared, op, delta, sig, ret, prev, fdelta, history>>

\* ------------------------------------------------ wait_for_commit()
CallWaitForCommit(t, d) ==
    /\ pc[t] = "idle"
    /\ op' = [op EXCEPT ![t] = "wc"]
    /\ delta' = [delta EXCEPT ![t] = d]
    /\ pc' = [pc EXCEPT ![t] = "wc_cond"]
    /\ UNCHANGED <<shared, wq, sig, ret, prev, fdelta, history>>

\* try_flush_pending_until_delta(): if (!delta_after_eq(committed_delta, delta))
CommitFirstCheck(t) ==
    /\ pc[t] = "wc_cond"
    /\ pc' = [pc EXCEPT ![t] =
                IF CommitDone(committed_delta, delta[t])
                THEN "wc_last" ELSE "fpd_test"]
    /\ UNCHANGED <<shared, op, delta, wq, sig, ret, prev, fdelta, history>>

\* flush_pending_delta(): test_bit(TUX3_COMMIT_PENDING_BIT)
FlushPendingTest(t) ==
    /\ pc[t] = "fpd_test"
    /\ pc' = [pc EXCEPT ![t] =
                IF PendingSeen(backend_state) THEN "fpd_tac" ELSE "wc_last"]
    /\ UNCHANGED <<shared, op, delta, wq, sig, ret, prev, fdelta, history>>

\* flush_pending_delta(): test_and_clear_bit(TUX3_COMMIT_PENDING_BIT)
FlushPendingTestAndClear(t) ==
    /\ pc[t] = "fpd_tac"
    /\ IF FlushElected(backend_state)
       THEN /\ pc' = [pc EXCEPT ![t] = "fd_begin"]
            /\ credit' = credit - 1
       ELSE /\ pc' = [pc EXCEPT ![t] = "wc_last"]
            /\ UNCHANGED credit
    /\ backend_state' = backend_state \ {COMMIT_PENDING}
    /\ UNCHANGED <<staging_delta, committed_delta, current_delta, refcount,
                   delta_lock, op, delta, wq, sig, ret, prev, fdelta,
                   ntrans, failed, issued>>

\* try_flush_pending_until_delta(): return delta_after_eq(committed_delta, delta)
CommitLastCheck(t) ==
    /\ pc[t] = "wc_last"
    /\ wait_event_killable(t, "wc", CommitDone(committed_delta, delta[t]))
    /\ UNCHANGED <<staging_delta, committed_delta, current_delta, refcount,
                   backend_state, op, delta, sig, prev, fdelta, history>>

\* ------------------------------------------------ sync_current_delta()
\* down_write(&sb->delta_lock); delta_ref = delta_get(sb); delta = delta_ref->delta
SyncLockAndGet(t) ==
    /\ pc[t] = "idle"
    /\ MayTransition
    /\ DeltaLockFree(delta_lock)
    /\ delta_lock' = t
    /\ delta_get
    /\ op' = [op EXCEPT ![t] = "sync"]
    /\ delta' = [delta EXCEPT ![t] = current_delta]
    /\ pc' = [pc EXCEPT ![t] = "sync_put"]
    /\ UNCHANGED <<staging_delta, committed_delta, current_delta, backend_state,
                   wq, sig, ret, prev, fdelta, history>>

\* delta_put(sb, delta_ref); then wait_for_transition(sb, delta)
SyncPut(t) ==
    /\ pc[t] = "sync_put"
    /\ delta_put(delta[t])
    /\ pc' = [pc EXCEPT ![t] = "wt_cond"]
    /\ UNCHANGED <<staging_delta, committed_delta, current_delta, delta_lock,
                   op, delta, sig, ret, prev, fdelta, ntrans, failed, issued>>

\* ------------------------------------------------ the environment
WaitPcs == {"wt_cond", "wt_tas", "wt_recheck", "wt_last", "wt_sched",
            "wc_cond", "fpd_test", "fpd_tac", "wc_last", "wc_sched"}

\* a fatal signal is sent to a thread that is in a wait; the wait sees it in
\* prepare_to_wait_event() and schedule()
Kill(t) ==
    /\ pc[t] \in WaitPcs
    /\ ~sig[t]
    /\ Cardinality({u \in Threads : sig[u]}) < MaxKills
    /\ sig' = [sig EXCEPT ![t] = TRUE]
    /\ UNCHANGED <<shared, pc, op, delta, wq, ret, prev, fdelta, history>>

\* the entry point has returned ret[t] to its caller; a task with a fatal
\* signal pending exits
Return(t) ==
    /\ pc[t] = "ret"
    /\ pc' = [pc EXCEPT ![t] = IF sig[t] THEN "exited" ELSE "idle"]
    /\ op' = [op EXCEPT ![t] = "none"]
    /\ delta' = [delta EXCEPT ![t] = 0]
    /\ ret' = [ret EXCEPT ![t] = "none"]
    /\ UNCHANGED <<shared, wq, sig, prev, fdelta, history>>

\* ------------------------------------------------ the specification
Init ==
    /\ staging_delta = InitDelta
    /\ committed_delta = InitDelta
    /\ current_delta = Inc(InitDelta)
    /\ refcount = [e \in Deltas |-> 0]
    /\ backend_state = {}
    /\ delta_lock = 0
    /\ pc = [t \in Threads |-> "idle"]
    /\ op = [t \in Threads |-> "none"]
    /\ delta = [t \in Threads |-> 0]
    /\ wq = [t \in Threads |-> "none"]
    /\ sig = [t \in Threads |-> FALSE]
    /\ ret = [t \in Threads |-> "none"]
    /\ prev = [t \in Threads |-> 0]
    /\ fdelta = [t \in Threads |-> 0]
    /\ ntrans = 0
    /\ credit = 0
    /\ failed = {}
    /\ issued = {Inc(InitDelta)}

\* what the flush of the storage layer may return
FlushResults == IF Cardinality(failed) < MaxFaults THEN {"0", "-EIO"} ELSE {"0"}

\* the steps of thread t itself
Step(t) ==
    \/ DeltaTransitionSeal(t)
    \/ DeltaTransitionStage(t)
    \/ FlushDeltaBegin(t)
    \/ \E err \in FlushResults : FlushDeltaCommit(t, err)
    \/ TransitionFirstCheck(t)
    \/ TransitionTestAndSet(t)
    \/ TransitionRecheck(t)
    \/ TransitionLastCheck(t)
    \/ Schedule(t)
    \/ CommitFirstCheck(t)
    \/ FlushPendingTest(t)
    \/ FlushPendingTestAndClear(t)
    \/ CommitLastCheck(t)
    \/ SyncPut(t)
    \/ Return(t)

\* a thread calls one of the entry points
Call(t) ==
    \/ try_delta_transition(t)
    \/ \E d \in {staging_delta, current_delta} : CallWaitForTransition(t, d)
    \/ \E d \in {staging_delta, current_delta} : CallWaitForCommit(t, d)
    \/ SyncLockAndGet(t)

Next ==
    \/ \E t \in Threads : Step(t)
    \/ \E t \in Threads : Call(t)
    \/ \E t \in Threads : Kill(t)
    \/ WriterGet
    \/ \E e \in Deltas : WriterPut(e)

Spec == Init /\ [][Next]_vars

\* the scheduler runs every thread that can run: a thread that is not asleep
\* in schedule() eventually takes its next step
LiveSpec == Spec /\ \A t \in Threads : WF_vars(Step(t))

\* ---- the race of spec.md section 8: every thread has called
\* wait_for_transition(D) with staging_delta one epoch before D, and nothing
\* else runs but writers taking and dropping references
RaceInit ==
    /\ staging_delta = InitDelta
    /\ committed_delta = InitDelta
    /\ current_delta = Inc(InitDelta)
    /\ refcount = [e \in Deltas |-> 0]
    /\ backend_state = {}
    /\ delta_lock = 0
    /\ pc = [t \in Threads |-> "wt_cond"]
    /\ op = [t \in Threads |-> "wt"]
    /\ delta = [t \in Threads |-> Inc(InitDelta)]
    /\ wq = [t \in Threads |-> "none"]
    /\ sig = [t \in Threads |-> FALSE]
    /\ ret = [t \in Threads |-> "none"]
    /\ prev = [t \in Threads |-> 0]
    /\ fdelta = [t \in Threads |-> 0]
    /\ ntrans = 0
    /\ credit = 0
    /\ failed = {}
    /\ issued = {Inc(InitDelta)}

RaceStep(t) ==
    \/ TransitionFirstCheck(t)
    \/ TransitionTestAndSet(t)
    \/ TransitionRecheck(t)
    \/ DeltaTransitionSeal(t)
    \/ DeltaTransitionStage(t)
    \/ TransitionLastCheck(t)
    \/ Schedule(t)

RaceNext ==
    \/ \E t \in Threads : RaceStep(t)
    \/ WriterGet
    \/ \E e \in Deltas : WriterPut(e)

RaceSpec == RaceInit /\ [][RaceNext]_vars

\* ================================================================ claims
\* C1: at most one thread is inside delta_transition() at any time, and while
\* one is inside, TUX3_COMMIT_RUNNING_BIT is set, so no other test-and-set
\* can succeed until the bit is cleared.
C1_OneTransitionDriver ==
    /\ Cardinality({t \in Threads : InTransition(t)}) <= 1
    /\ (\E t \in Threads : InTransition(t)) => COMMIT_RUNNING \in backend_state

\* one thread is in the transition body while another has lost the
\* test-and-set in try_delta_transition_until_delta()
C1_Witness ==
    \E t, u \in Threads :
        /\ t # u
        /\ pc[t] = "dt_stage"
        /\ pc[u] = "wt_last"
        /\ ~TransitionDone(staging_delta, delta[u])

\* C2: a thread in wait_for_commit(D) that has no fatal signal pending
\* returns 0 once committed_delta has reached D, whoever ran the flush.
C2_NoLostCommitWakeup ==
    \A t \in Threads :
        (InWaitForCommit(t) /\ ~sig[t] /\ delta_after_eq(committed_delta, delta[t]))
            ~> ((pc[t] = "ret" /\ ret[t] = "0") \/ sig[t])

\* a thread that slept in wait_for_commit(D) has been woken by the flush of
\* another thread, which took committed_delta to D
C2_Witness ==
    \E t \in Threads :
        /\ pc[t] = "wc_sched" /\ wq[t] = "woken" /\ ~sig[t]
        /\ delta_after_eq(committed_delta, delta[t])
        /\ delta[t] # InitDelta

\* C3: whenever sync_current_delta() has returned 0, committed_delta and
\* staging_delta have both reached the delta it read at entry.
C3_SyncSuccessMeansCommitted ==
    \A t \in Threads :
        (op[t] = "sync" /\ pc[t] = "ret" /\ ret[t] = "0") =>
            /\ delta_after_eq(committed_delta, delta[t])
            /\ delta_after_eq(staging_delta, delta[t])

\* a sync_current_delta() has returned 0 for an epoch it had to transition
\* and flush
C3_Witness ==
    \E t \in Threads :
        /\ op[t] = "sync" /\ pc[t] = "ret" /\ ret[t] = "0"
        /\ committed_delta = delta[t]
        /\ delta[t] # InitDelta

\* C4: a thread that returns from wait_for_commit(D) after the flush of
\* epoch D failed returns the fatal error, never success.
C4_FlushErrorReachesWaiters ==
    \A t \in Threads :
        (op[t] = "wc" /\ pc[t] = "ret" /\ delta[t] \in failed) =>
            ret[t] = "-EIO"

InSyncCurrentDelta(t) == op[t] = "sync" /\ pc[t] # "ret"

C6_SyncSerialized ==
    /\ Cardinality({t \in Threads : InSyncCurrentDelta(t)}) <= 1
    /\ \A t \in Threads : InSyncCurrentDelta(t) => delta_lock = t

\* while one thread holds delta_lock inside sync_current_delta(), a direct
\* caller of wait_for_transition() has won the election and is advancing
\* staging_delta
C6_Witness ==
    \E t, u \in Threads :
        /\ t # u
        /\ InSyncCurrentDelta(t) /\ delta_lock = t
        /\ op[u] = "wt" /\ pc[u] = "dt_stage"

\* C7: in the race of N threads calling wait_for_transition(D) from one epoch
\* before D, the transition body runs at most once; a thread that has
\* returned has returned 0 after exactly one transition, with staging_delta
\* at D; and once no thread can take a step, every thread has returned.
C7_OneTransitionPerRace ==
    /\ ntrans <= 1
    /\ \A t \in Threads :
          pc[t] = "ret" =>
              /\ ret[t] = "0"
              /\ ntrans = 1
              /\ staging_delta = delta[t]
    /\ (\A t \in Threads : ~ENABLED RaceStep(t)) =>
          (\A t \in Threads : pc[t] = "ret")

\* one thread has returned after the transition, and another has won the
\* bit with the target already reached: it is about to clear the bit and
\* return without a transition
C7_Witness ==
    \E t, u \in Threads :
        /\ t # u
        /\ pc[u] = "ret"
        /\ pc[t] = "wt_recheck"
        /\ delta_after_eq(staging_delta, delta[t])

\* C8: a wait that ends on a pending fatal signal with its condition unmet
\* makes its caller return -ERESTARTSYS in the same step, also when the
\* caller is sync_current_delta() in its transition wait, which then does
\* not go on to wait_for_commit(); and an entry point that returned 0 has
\* its condition met.
WaitConditionMet(t) ==
    IF InWaitForCommit(t)
    THEN delta_after_eq(committed_delta, delta[t])
    ELSE delta_after_eq(staging_delta, delta[t])

C8_InterruptedIsNotSuccess ==
    /\ [](\A t \in Threads :
            (pc[t] = "ret" /\ ret[t] = "0") =>
                IF op[t] = "wt"
                THEN delta_after_eq(staging_delta, delta[t])
                ELSE delta_after_eq(committed_delta, delta[t]))
    /\ [][\A t \in Threads :
            (wq[t] = "intr" /\ wq'[t] = "none" /\ ~WaitConditionMet(t)) =>
                (pc'[t] = "ret" /\ ret'[t] = "-ERESTARTSYS")]_vars

\* sync_current_delta() has returned -ERESTARTSYS out of its transition
\* wait, before the transition for its delta was done
C8_Witness ==
    \E t \in Threads :
        /\ op[t] = "sync" /\ pc[t] = "ret" /\ ret[t] = "-ERESTARTSYS"
        /\ delta_lock = t
        /\ ~delta_after_eq(staging_delta, delta[t])

\* C9: no step moves staging_delta backwards in the wraparound order, and
\* no step opens an epoch that has been the open epoch before.
C9_StagingMonotonic ==
    [][/\ delta_after_eq(staging_delta', staging_delta)
       /\ current_delta' # current_delta => current_delta' \notin issued]_vars

\* two transitions have been done across the wrap of the counter while a
\* writer still holds a reference
C9_Witness ==
    /\ staging_delta = Inc(Inc(InitDelta))
    /\ staging_delta < InitDelta
    /\ \E e \in Deltas : refcount[e] > 0

\* C10: committed_delta is at or behind staging_delta in the wraparound
\* order.
C10_CommittedBehindStaging == delta_after_eq(staging_delta, committed_delta)

\* the first epoch is committed and the second is staged, across the wrap
C10_Witness ==
    /\ committed_delta = Inc(InitDelta)
    /\ staging_delta = Inc(Inc(InitDelta))

\* ---- the scenario of spec.md section 8: sync_current_delta() is called
\* with no writer holding a reference, no commit pending and no bit set, from
\* any value of the counters, and nothing else runs (the callers are
\* serialized by delta_lock)
SyncInit ==
    /\ staging_delta \in Deltas
    /\ committed_delta = staging_delta
    /\ current_delta = Inc(staging_delta)
    /\ refcount = [e \in Deltas |-> 0]
    /\ backend_state = {}
    /\ delta_lock = 0
    /\ pc = [t \in Threads |-> "idle"]
    /\ op = [t \in Threads |-> "none"]
    /\ delta = [t \in Threads |-> 0]
    /\ wq = [t \in Threads |-> "none"]
    /\ sig = [t \in Threads |-> FALSE]
    /\ ret = [t \in Threads |-> "none"]
    /\ prev = [t \in Threads |-> 0]
    /\ fdelta = [t \in Threads |-> 0]
    /\ ntrans = 0
    /\ credit = 0
    /\ failed = {}
    /\ issued = {current_delta}

SyncStep(t) ==
    \/ SyncLockAndGet(t)
    \/ SyncPut(t)
    \/ TransitionFirstCheck(t)
    \/ TransitionTestAndSet(t)
    \/ TransitionRecheck(t)
    \/ DeltaTransitionSeal(t)
    \/ DeltaTransitionStage(t)
    \/ TransitionLastCheck(t)
    \/ CommitFirstCheck(t)
    \/ FlushPendingTest(t)
    \/ FlushPendingTestAndClear(t)
    \/ FlushDeltaBegin(t)
    \/ \E err \in FlushResults : FlushDeltaCommit(t, err)
    \/ CommitLastCheck(t)
    \/ Return(t)

SyncNext == \E t \in Threads : SyncStep(t)

SyncSpec == SyncInit /\ [][SyncNext]_vars

\* C11 (as stated): sync_current_delta() called with no writer holding a
\* reference and no work pending returns 0 without running the transition
\* body or the flush body and without sleeping.
C11_QuiescentSyncRunsNothing ==
    \A t \in Threads :
        op[t] = "sync" =>
            /\ ~InTransition(t)
            /\ ~InFlush(t)
            /\ pc[t] \notin {"wt_sched", "wc_sched"}
            /\ pc[t] = "ret" => ret[t] = "0"

\* C11 (amended): sync_current_delta() called with no writer holding a
\* reference and no work pending never sleeps and returns 0, having run the
\* transition body once and the flush body once for the delta it read: the
\* open epoch is then the one after that delta, staging_delta and
\* committed_delta are that delta, and the one setting of
\* TUX3_COMMIT_PENDING_BIT has been consumed.
C11_QuiescentSyncRunsOnce ==
    /\ [](\A t \in Threads :
            op[t] = "sync" =>
                /\ pc[t] \notin {"wt_sched", "wc_sched"}
                /\ InTransition(t) => ~delta_after_eq(staging_delta, delta[t])
                /\ InFlush(t) => ~delta_after_eq(committed_delta, delta[t]))
    /\ [][\A t \in Threads :
            (op[t] = "sync" /\ pc[t] # "ret" /\ pc'[t] = "ret") =>
                /\ ret'[t] = "0"
                /\ current_delta' = Inc(delta[t])
                /\ staging_delta' = delta[t]
                /\ committed_delta' = delta[t]
                /\ COMMIT_PENDING \notin backend_state'
                /\ credit' = 0]_vars

\* a second sync_current_delta() has returned 0 after its own transition and
\* flush, the first one having left nothing pending
C11_Witness ==
    \E t \in Threads :
        /\ op[t] = "sync" /\ pc[t] = "ret" /\ ret[t] = "0"
        /\ ntrans = 2
        /\ committed_delta = delta[t]
        /\ delta_lock = 0

\* C12: every step that clears TUX3_COMMIT_RUNNING_BIT or advances
\* staging_delta or committed_delta wakes every sleeper queued on
\* delta_event_wq, also the step of a thread that won the bit, found its
\* target reached and cleared the bit; and a thread that cleared
\* TUX3_COMMIT_PENDING_BIT goes on to the flush, whose last step wakes every
\* sleeper.
Broadcast == \A u \in Threads : wq[u] = "armed" => wq'[u] # "armed"

C12_MutationThenBroadcast ==
    [][/\ (COMMIT_RUNNING \in backend_state /\ COMMIT_RUNNING \notin backend_state')
            => Broadcast
       /\ staging_delta' # staging_delta => Broadcast
       /\ committed_delta' # committed_delta => Broadcast
       /\ (COMMIT_PENDING \in backend_state /\ COMMIT_PENDING \notin backend_state')
            => \E t \in Threads : pc[t] = "fpd_tac" /\ pc'[t] = "fd_begin"
       /\ \A t \in Threads :
            (pc[t] = "fd_commit" /\ pc'[t] # "fd_commit") => Broadcast]_vars

\* ---- the comparison of try_delta_transition_until_delta() on its own:
\* every thread has called wait_for_transition(d), for any d and any value
\* of staging_delta, and makes the first test (line 63)
CompareInit ==
    /\ staging_delta \in Deltas
    /\ committed_delta = staging_delta
    /\ current_delta = Inc(staging_delta)
    /\ refcount = [e \in Deltas |-> 0]
    /\ backend_state = {}
    /\ delta_lock = 0
    /\ pc = [t \in Threads |-> "wt_cond"]
    /\ op = [t \in Threads |-> "wt"]
    /\ delta \in [Threads -> Deltas]
    /\ wq = [t \in Threads |-> "none"]
    /\ sig = [t \in Threads |-> FALSE]
    /\ ret = [t \in Threads |-> "none"]
    /\ prev = [t \in Threads |-> 0]
    /\ fdelta = [t \in Threads |-> 0]
    /\ ntrans = 0
    /\ credit = 0
    /\ failed = {}
    /\ issued = {current_delta}

CompareNext == \E t \in Threads : TransitionFirstCheck(t)

CompareSpec == CompareInit /\ [][CompareNext]_vars

\* C13: delta_after_eq(a, a) is true, and the test of
\* delta_after_eq(staging_delta, delta) comes out true whenever
\* staging_delta = delta + k modulo 2^DeltaBits with 0 <= k < 2^(DeltaBits-1),
\* and false whenever delta = staging_delta + k with 0 < k < 2^(DeltaBits-1);
\* the two operand orders agree with each other only for k = 0.
C13_AfterEqWraparound ==
    \A t \in Threads :
        LET a == staging_delta
            b == delta[t]
            k == (a - b) % DeltaMod
            j == (b - a) % DeltaMod
        IN  /\ delta_after_eq(a, a) /\ delta_after_eq(b, b)
            /\ k < HalfRange =>
                  /\ delta_after_eq(a, b)
                  /\ delta_after_eq(b, a) => k = 0
                  /\ pc[t] # "wt_tas"
            /\ (0 < j /\ j < HalfRange) => pc[t] # "ret"
            /\ pc[t] = "ret" => ret[t] = "0"

\* one thread found its delta reached across the wrap of the counter
\* (staging_delta is numerically below it), another found its delta ahead of
\* staging_delta
C13_Witness ==
    \E t, u \in Threads :
        /\ pc[t] = "ret" /\ staging_delta < delta[t]
        /\ pc[u] = "wt_tas" /\ staging_delta < delta[u]

\* ================================================ the async flusher
\* (TUX3_FLUSHER_ASYNC): tux3_writeback() passes, whose wait_for_transition()
\* is the code of the sync flusher again (lines 145-172)

\* tux3_writeback(): if (!(super->s_flags & MS_ACTIVE)) return 0;
WritebackInactive(t) ==
    /\ pc[t] = "idle"
    /\ op' = [op EXCEPT ![t] = "wb"]
    /\ ret' = [ret EXCEPT ![t] = "0"]
    /\ pc' = [pc EXCEPT ![t] = "ret"]
    /\ UNCHANGED <<shared, delta, wq, sig, prev, fdelta, history>>

\* tux3_writeback(): delta_ref = delta_get(sb); delta = delta_ref->delta
WritebackGet(t) ==
    /\ pc[t] = "idle"
    /\ MayTransition
    /\ delta_get
    /\ op' = [op EXCEPT ![t] = "wb"]
    /\ delta' = [delta EXCEPT ![t] = current_delta]
    /\ pc' = [pc EXCEPT ![t] = "sync_put"]
    /\ UNCHANGED <<staging_delta, committed_delta, current_delta, backend_state,
                   delta_lock, wq, sig, ret, prev, fdelta, history>>

\* tux3_writeback(): test_bit(TUX3_COMMIT_PENDING_BIT, &sb->backend_state),
\* the condition of the wait_event() and of the `if` after it
WritebackPendingSeen(state) == test_bit(COMMIT_PENDING, state)

\* wait_event(sb->delta_event_wq, test_bit(TUX3_COMMIT_PENDING_BIT)): the
\* test of the condition; the first test is made unqueued, the later ones
\* after prepare_to_wait_event(), which always queues an uninterruptible task
WritebackWait(t) ==
    /\ pc[t] = "wb_wait"
    /\ IF WritebackPendingSeen(backend_state)
       THEN /\ wq' = [wq EXCEPT ![t] = "none"]
            /\ pc' = [pc EXCEPT ![t] = "wb_test"]
       ELSE IF wq[t] = "none"
       THEN /\ wq' = [wq EXCEPT ![t] = "armed"]
            /\ UNCHANGED pc
       ELSE /\ pc' = [pc EXCEPT ![t] = "wb_sched"]
            /\ UNCHANGED wq
    /\ UNCHANGED <<shared, op, delta, sig, ret, prev, fdelta, history>>

\* schedule() in the wait_event() loop returns only once the task was woken
WritebackSchedule(t) ==
    /\ pc[t] = "wb_sched"
    /\ wq[t] = "woken"
    /\ wq' = [wq EXCEPT ![t] = "armed"]
    /\ pc' = [pc EXCEPT ![t] = "wb_wait"]
    /\ UNCHANGED <<shared, op, delta, sig, ret, prev, fdelta, history>>

\* tux3_writeback(): if (test_bit(TUX3_COMMIT_PENDING_BIT, ...)) {
WritebackTest(t) ==
    /\ pc[t] = "wb_test"
    /\ pc' = [pc EXCEPT ![t] =
                IF WritebackPendingSeen(backend_state) THEN "wb_clear" ELSE "wb_ret"]
    /\ UNCHANGED <<shared, op, delta, wq, sig, ret, prev, fdelta, history>>

\* tux3_writeback(): clear_bit(TUX3_COMMIT_PENDING_BIT, ...); then flush_delta()
WritebackClear(t) ==
    /\ pc[t] = "wb_clear"
    /\ backend_state' = backend_state \ {COMMIT_PENDING}
    /\ credit' = credit - 1
    /\ pc' = [pc EXCEPT ![t] = "fd_begin"]
    /\ UNCHANGED <<staging_delta, committed_delta, current_delta, refcount,
                   delta_lock, op, delta, wq, sig, ret, prev, fdelta,
                   ntrans, failed, issued>>

\* tux3_writeback(): *nr_pages = 0; return 1;
WritebackReturn(t) ==
    /\ pc[t] = "wb_ret"
    /\ ret' = [ret EXCEPT ![t] = "1"]
    /\ pc' = [pc EXCEPT ![t] = "ret"]
    /\ UNCHANGED <<shared, op, delta, wq, sig, prev, fdelta, history>>

\* the steps of a thread in a writeback pass
AsyncStep(t) ==
    \/ SyncPut(t)
    \/ TransitionFirstCheck(t)
    \/ TransitionTestAndSet(t)
    \/ TransitionRecheck(t)
    \/ DeltaTransitionSeal(t)
    \/ DeltaTransitionStage(t)
    \/ TransitionLastCheck(t)
    \/ Schedule(t)
    \/ WritebackWait(t)
    \/ WritebackSchedule(t)
    \/ WritebackTest(t)
    \/ WritebackClear(t)
    \/ FlushDeltaBegin(t)
    \/ \E err \in FlushResults : FlushDeltaCommit(t, err)
    \/ WritebackReturn(t)
    \/ Return(t)

AsyncCall(t) ==
    \/ WritebackInactive(t)
    \/ WritebackGet(t)

AsyncNext ==
    \/ \E t \in Threads : AsyncStep(t)
    \/ \E t \in Threads : AsyncCall(t)
    \/ \E t \in Threads : Kill(t)
    \/ WriterGet
    \/ \E e \in Deltas : WriterPut(e)

AsyncSpec == Init /\ [][AsyncNext]_vars

\* the scheduler runs every thread that can run
AsyncLiveSpec == AsyncSpec /\ \A t \in Threads : WF_vars(AsyncStep(t))

\* C14: in the async flusher every flush body was begun for a setting of
\* TUX3_COMMIT_PENDING_BIT that no other flush was begun for: the flushes
\* begun never outnumber the settings of the bit, and a setting not yet
\* consumed is the bit itself.
C14_AsyncOneFlushPerPending ==
    /\ credit >= 0
    /\ (COMMIT_PENDING \in backend_state) <=> (credit = 1)

\* C15: a tux3_writeback() pass whose transition wait has succeeded
\* eventually returns, whether or not TUX3_COMMIT_PENDING_BIT is ever set.
C15_WritebackPassReturns ==
    \A t \in Threads :
        (op[t] = "wb" /\ pc[t] = "wb_wait") ~> (pc[t] = "ret")

\* ---- the scenario of spec.md section 8: writers hold NWriters references
\* to the open epoch E, every thread has called wait_for_transition(E + 1),
\* and nothing else runs but the writers dropping their references
DrainInit ==
    /\ staging_delta = InitDelta
    /\ committed_delta = InitDelta
    /\ current_delta = Inc(InitDelta)
    /\ refcount = [e \in Deltas |-> IF e = Inc(InitDelta) THEN NWriters ELSE 0]
    /\ backend_state = {}
    /\ delta_lock = 0
    /\ pc = [t \in Threads |-> "wt_cond"]
    /\ op = [t \in Threads |-> "wt"]
    /\ delta = [t \in Threads |-> Inc(Inc(InitDelta))]
    /\ wq = [t \in Threads |-> "none"]
    /\ sig = [t \in Threads |-> FALSE]
    /\ ret = [t \in Threads |-> "none"]
    /\ prev = [t \in Threads |-> 0]
    /\ fdelta = [t \in Threads |-> 0]
    /\ ntrans = 0
    /\ credit = 0
    /\ failed = {}
    /\ issued = {Inc(InitDelta)}

DrainNext ==
    \/ \E t \in Threads : RaceStep(t)
    \/ \E e \in Deltas : WriterPut(e)

DrainSpec == DrainInit /\ [][DrainNext]_vars

\* C16 (as stated): with writers holding references to the open epoch E, a
\* thread that called wait_for_transition(E + 1) has returned only after
\* every one of those references was released and a transition has run, and
\* then it has returned 0 with staging_delta = E + 1.
C16_BlockedUntilDrained ==
    \A t \in Threads :
        pc[t] = "ret" =>
            /\ refcount[Inc(InitDelta)] = 0
            /\ ntrans >= 1
            /\ ret[t] = "0"
            /\ staging_delta = delta[t]

\* C16 (amended): with writers holding references to the open epoch E, a
\* thread that called wait_for_transition(E + 1) does not wait for the
\* references: whether or not they are released it is never left unable to
\* step before it returns, and it has returned 0 with staging_delta = E + 1
\* only after the transitions that seal E and E + 1 have run.
C16_ReturnsAfterTransitions ==
    /\ \A t \in Threads :
          pc[t] = "ret" =>
              /\ ret[t] = "0"
              /\ staging_delta = delta[t]
              /\ ntrans = 2
    /\ (\A t \in Threads : ~ENABLED RaceStep(t)) =>
          (\A t \in Threads : pc[t] = "ret")

\* a thread has returned from wait_for_transition(E + 1) while the writers
\* still hold every reference to E
C16_Witness ==
    \E t \in Threads :
        /\ pc[t] = "ret" /\ ret[t] = "0"
        /\ delta[t] = Inc(Inc(InitDelta))
        /\ refcount[Inc(InitDelta)] = NWriters

\* there is a sealed epoch at or before staging_delta that committed_delta
\* does not cover
SealedNotCommitted ==
    \E e \in Deltas : Sealed(e) /\ ~delta_after_eq(committed_delta, e)

\* C17 (as stated): TUX3_COMMIT_PENDING_BIT is set if and only if there is a
\* sealed epoch at or before staging_delta that committed_delta does not
\* cover, in every state.
C17_PendingIffUncommitted ==
    (COMMIT_PENDING \in backend_state) <=> SealedNotCommitted

\* C17 (amended): whenever there is a sealed epoch at or before staging_delta
\* that committed_delta does not cover, TUX3_COMMIT_PENDING_BIT is set, or a
\* thread that cleared it is between its test-and-clear and the completion
\* of flush_delta(), or a writer still holds a reference to a sealed epoch.
C17_UncommittedIsAccountedFor ==
    SealedNotCommitted =>
        \/ COMMIT_PENDING \in backend_state
        \/ \E t \in Threads : InFlush(t)
        \/ \E e \in Deltas : Sealed(e) /\ refcount[e] > 0

\* a thread has cleared the bit and is in flush_delta(): the sealed epoch is
\* not committed yet, the bit is clear and no writer holds a reference
C17_Witness ==
    /\ SealedNotCommitted
    /\ COMMIT_PENDING \notin backend_state
    /\ \E t \in Threads : pc[t] = "fd_commit"
    /\ \A e \in Deltas : refcount[e] = 0

\* C18: a thread in wait_for_commit(D) that wins the test-and-clear of
\* TUX3_COMMIT_PENDING_BIT enters the flush body only if committed_delta has
\* not reached D at that moment.
C18_FlushOnlyIfNotCommitted ==
    [][\A t \in Threads :
          (pc[t] = "fpd_tac" /\ pc'[t] = "fd_begin") =>
              ~delta_after_eq(committed_delta, delta[t])]_vars

\* ---- threads in wait_for_transition() with different targets: every
\* thread has called wait_for_transition(d) for the open epoch or the one
\* after it, and nothing else runs but writers
ElectInit ==
    /\ staging_delta = InitDelta
    /\ committed_delta = InitDelta
    /\ current_delta = Inc(InitDelta)
    /\ refcount = [e \in Deltas |-> 0]
    /\ backend_state = {}
    /\ delta_lock = 0
    /\ pc = [t \in Threads |-> "wt_cond"]
    /\ op = [t \in Threads |-> "wt"]
    /\ delta \in [Threads -> {Inc(InitDelta), Inc(Inc(InitDelta))}]
    /\ wq = [t \in Threads |-> "none"]
    /\ sig = [t \in Threads |-> FALSE]
    /\ ret = [t \in Threads |-> "none"]
    /\ prev = [t \in Threads |-> 0]
    /\ fdelta = [t \in Threads |-> 0]
    /\ ntrans = 0
    /\ credit = 0
    /\ failed = {}
    /\ issued = {Inc(InitDelta)}

ElectSpec == ElectInit /\ [][RaceNext]_vars

\* the scheduler runs every thread that can run: a thread that is not asleep
\* in schedule() eventually takes its next step
ElectLiveSpec == ElectSpec /\ \A t \in Threads : WF_vars(RaceStep(t))

\* C19: every thread that called wait_for_transition(D) and gets no fatal
\* signal eventually returns 0.
C19_TransitionWaitReturns ==
    \A t \in Threads :
        (op[t] = "wt" /\ pc[t] = "wt_cond") ~> (pc[t] = "ret" /\ ret[t] = "0")

\* C20: once sync_current_delta() has returned to thread t, whatever it
\* returned, t does not hold delta_lock.
C20_SyncReturnsUnlocked ==
    \A t \in Threads :
        (op[t] = "sync" /\ pc[t] = "ret") => delta_lock # t

====
